---- MODULE Spec2Model ----
(***************************************************************************)
(* Model of app/vmalert/recording.go: the RecordingRule of vmalert.        *)
(*                                                                         *)
(* Go strings are modelled as sequences of bytes (naturals), so that       *)
(* concatenation is \o and the byte-wise order of sort.Slice's less is     *)
(* the lexicographic order on those sequences.                             *)
(***************************************************************************)
EXTENDS Integers, Sequences, FiniteSets, TLC

(***************************************************************************)
(* Bounds of the model.                                                    *)
(***************************************************************************)
\* Exec(series=true) cycles started in one behaviour.
MaxCycles == 2
\* Metrics in one query result.
MaxMetrics == 3
\* Labels in a label sequence handed to stringifyLabels on its own.
MaxLabels == 3

(***************************************************************************)
(* Strings.                                                                *)
(***************************************************************************)
S_name  == <<95, 95, 110, 97, 109, 101, 95, 95>>   \* "__name__"
S_job   == <<106, 111, 98>>                        \* "job"
S_env   == <<101, 110, 118>>                       \* "env"
S_a     == <<97>>                                  \* "a"
S_b     == <<98>>                                  \* "b"
S_1     == <<49>>                                  \* "1"
S_2     == <<50>>                                  \* "2"
S_1b2   == <<49, 44, 98, 61, 50>>                  \* "1,b=2"
S_prod  == <<112, 114, 111, 100>>                  \* "prod"
S_dev   == <<100, 101, 118>>                       \* "dev"
S_up    == <<117, 112>>                            \* "up"
S_upcnt == <<117, 112, 95, 99, 111, 117, 110, 116>> \* "up_count"
S_x     == <<120>>                                 \* "x"
S_empty == <<>>                                    \* ""
S_eq    == <<61>>                                  \* "="
S_comma == <<44>>                                  \* ","

\* s < t on Go strings: byte-wise lexicographic order.
RECURSIVE StrLess(_, _)
StrLess(s, t) ==
    IF t = <<>> THEN FALSE
    ELSE IF s = <<>> THEN TRUE
    ELSE IF s[1] < t[1] THEN TRUE
    ELSE IF s[1] > t[1] THEN FALSE
    ELSE StrLess(Tail(s), Tail(t))

(***************************************************************************)
(* Labels, maps and time series.                                           *)
(***************************************************************************)
Label(n, v) == [Name |-> n, Value |-> v]

\* The Go map that has no key.
EmptyMap == [k \in {} |-> S_empty]

\* labels[k] = v on a Go map.
MapPut(m, k, v) == [x \in DOMAIN m \cup {k} |-> IF x = k THEN v ELSE m[x]]

\* for _, l := range m.Labels { labels[l.Name] = l.Value }
RECURSIVE MapFromLabels(_, _)
MapFromLabels(m, ls) ==
    IF ls = <<>> THEN m
    ELSE MapFromLabels(MapPut(m, ls[1].Name, ls[1].Value), Tail(ls))

\* for k, v := range rr.Labels { labels[k] = v }
MapOverlay(m, over) ==
    [x \in DOMAIN m \cup DOMAIN over |-> IF x \in DOMAIN over THEN over[x] ELSE m[x]]

\* The orders in which the keys of a map can be enumerated.
KeyOrders(m) ==
    {o \in [1..Cardinality(DOMAIN m) -> DOMAIN m] :
        \A p, q \in 1..Cardinality(DOMAIN m) : p # q => o[p] # o[q]}

\* time.Unix(sec, 0)
TimeUnix(sec) == [sec |-> sec, nsec |-> 0]

\* newTimeSeries(value, labels, timestamp): one sample and the labels of the
\* map, enumerated in the order `order`.
newTimeSeries(value, labels, timestamp, order) ==
    [Labels  |-> [p \in 1..Len(order) |-> Label(order[p], labels[order[p]])],
     Samples |-> <<[Value |-> value, Timestamp |-> timestamp]>>]

\* A bug of toTimeSeries: the static labels are overlaid before __name__ is set.
toTimeSeriesLabelsNameLast(rrName, rrLabels, m) ==
    MapPut(MapOverlay(MapFromLabels(EmptyMap, m.Labels), rrLabels), S_name, rrName)

\* The map RecordingRule.toTimeSeries builds, for a rule with Name rrName and
\* Labels rrLabels: the metric's labels, then __name__, then the static labels.
toTimeSeriesLabels(rrName, rrLabels, m) ==
    MapOverlay(MapPut(MapFromLabels(EmptyMap, m.Labels), S_name, rrName), rrLabels)

\* RecordingRule.toTimeSeries
toTimeSeries(rrName, rrLabels, m, timestamp, order) ==
    newTimeSeries(m.Value, toTimeSeriesLabels(rrName, rrLabels, m), timestamp, order)

\* The insertion sort of sort.Slice (slices shorter than 12 elements): an
\* element moves left while its name is less than its predecessor's.
RECURSIVE InsertByName(_, _)
InsertByName(sorted, l) ==
    IF sorted = <<>> THEN <<l>>
    ELSE IF StrLess(l.Name, sorted[Len(sorted)].Name)
         THEN Append(InsertByName(SubSeq(sorted, 1, Len(sorted) - 1), l),
                     sorted[Len(sorted)])
         ELSE Append(sorted, l)

RECURSIVE SortFrom(_, _)
SortFrom(sorted, rest) ==
    IF rest = <<>> THEN sorted
    ELSE SortFrom(InsertByName(sorted, rest[1]), Tail(rest))

\* A bug of the sort: the labels are left in the order they came in.
SortByNameNoSort(labels) == labels

\* sort.Slice(labels, func(i, j int) bool { return labels[i].Name < labels[j].Name }),
\* done only when len(labels) > 1.
SortByName(labels) ==
    IF Len(labels) > 1 THEN SortFrom(<<>>, labels) ELSE labels

\* The strings.Builder loop of stringifyLabels over the labels from index p on.
RECURSIVE WriteLabels(_, _)
WriteLabels(labels, p) ==
    IF p > Len(labels) THEN S_empty
    ELSE labels[p].Name \o S_eq \o labels[p].Value
         \o (IF p # Len(labels) THEN S_comma ELSE S_empty)
         \o WriteLabels(labels, p + 1)

\* stringifyLabels(ts): the key of a time series.
stringifyLabels(ts) == WriteLabels(SortByName(ts.Labels), 1)

\* What the call leaves in ts.Labels: the sort is done in place, on the slice
\* the caller's ts shares.
LabelsAfterStringify(ts) == [ts EXCEPT !.Labels = SortByName(ts.Labels)]

\* A label sequence as the set of its (name, value) pairs.
PairSet(labels) == {<<labels[p].Name, labels[p].Value>> : p \in 1..Len(labels)}

UniqueNames(labels) ==
    \A p, q \in 1..Len(labels) : p # q => labels[p].Name # labels[q].Name

(***************************************************************************)
(* Errors.                                                                 *)
(***************************************************************************)
NilErr == [kind |-> "nil", msg |-> ""]

\* errDuplicate, the distinguished duplicate-series error.
errDuplicate == [kind |-> "errDuplicate", msg |-> "duplicate series"]

\* The errors q.Query returns: a cancelled context, a failing backend.
errCanceled == [kind |-> "query", msg |-> "context canceled"]
errBackend  == [kind |-> "query", msg |-> "connection refused"]
QueryErrors == {errCanceled, errBackend}

\* err.Error(). The messages of errors are never taken apart: they are TLA+
\* strings, not byte sequences.
ErrorString(e) == e.msg

\* fmt.Errorf("failed to execute query %q: %w", rr.Expr, err)
WrapQuery(expr, e) == [kind |-> "failed to execute query", expr |-> expr, cause |-> e]

\* fmt.Errorf("original metric %v; resulting labels %q: %w", r, key, errDuplicate)
WrapDuplicate(r, key) ==
    [kind |-> "original metric", metric |-> r, key |-> key, cause |-> errDuplicate]

\* fmt.Errorf("BUG: attempt to update recroding rule with wrong type %#v", r)
WrongTypeErr(r) == [kind |-> "BUG", rule |-> r]

\* errors.Is(e, target) for the errors above.
RECURSIVE ErrIs(_, _)
ErrIs(e, target) ==
    \/ e = target
    \/ /\ "cause" \in DOMAIN e
       /\ ErrIs(e.cause, target)

(***************************************************************************)
(* The inputs.                                                             *)
(***************************************************************************)
Metric(labels, value, timestamp) ==
    [Labels |-> labels, Value |-> value, Timestamp |-> timestamp]

mJobA == Metric(<<Label(S_job, S_a)>>, 1, 10)
mJobB == Metric(<<Label(S_job, S_b)>>, 2, 20)
\* Collides with mJobA once __name__ and env are overridden.
mUpDev == Metric(<<Label(S_name, S_up), Label(S_job, S_a), Label(S_env, S_dev)>>, 3, 30)
\* Two different label sets with separator characters in a value.
mSep1 == Metric(<<Label(S_a, S_1b2)>>, 4, 40)
mSep2 == Metric(<<Label(S_b, S_2), Label(S_a, S_1)>>, 5, 50)

MetricUniverse == {mJobA, mJobB, mUpDev, mSep1, mSep2}

RECURSIVE SeqsUpTo(_, _)
SeqsUpTo(S, n) ==
    IF n = 0 THEN {<<>>}
    ELSE LET shorter == SeqsUpTo(S, n - 1)
         IN  shorter \cup {Append(s, x) : s \in {t \in shorter : Len(t) = n - 1}, x \in S}

\* What q.Query can return: metrics and a nil error, or no metrics and an error.
QueryOutcomes ==
    {[qMetrics |-> ms, err |-> NilErr] : ms \in SeqsUpTo(MetricUniverse, MaxMetrics)}
    \cup {[qMetrics |-> <<>>, err |-> e] : e \in QueryErrors}

Expr1 == S_up
Expr2 == S_x
Labels1 == [k \in {S_env} |-> S_prod]
Labels2 == [k \in {S_name, S_job} |-> IF k = S_name THEN S_x ELSE S_b]

TypePrometheus == [name |-> "prometheus"]
TypeGraphite   == [name |-> "graphite"]

\* The rules UpdateWith is called with: two recording rules and an alerting rule.
RecordingRuleArg(id, name, expr, labels) ==
    [rule |-> "RecordingRule", Type |-> TypeGraphite, RuleID |-> id, Name |-> name,
     Expr |-> expr, Labels |-> labels, GroupID |-> 9]
UpdateArgs ==
    {RecordingRuleArg(2, S_x, Expr2, Labels2),
     RecordingRuleArg(3, S_up, Expr1, Labels1),
     [rule |-> "AlertingRule", Expr |-> Expr2, Labels |-> Labels2]}

(***************************************************************************)
(* The state.                                                              *)
(***************************************************************************)
VARIABLES
    \* The fields of the RecordingRule.
    Type, RuleID, Name, Expr, Labels, GroupID,
    mu,             \* rr.mu: "free" or the holder of the lock
    lastExecTime,   \* 0 is the zero time.Time
    lastExecError,
    registered,     \* rr.metrics.errors is in the metrics registry
    \* The environment.
    now,            \* what time.Now() returns next
    queries,        \* the calls of q.Query made so far
    unregistered,   \* the calls of metrics.UnregisterMetric made so far
    finals,         \* the status each completed Exec(series=true) left, in order,
                    \* with the number of its query, the time it recorded and
                    \* whether it returned an error
    \* The callers of the rule.
    exec,           \* exec[self]: the Exec call of scheduler task self
    api,            \* the RuleAPI call of the status handler
    gauge,          \* the health-gauge callback of the metrics scrape
    upd,            \* the UpdateWith call of the configuration reload
    \* The pure functions applied on their own.
    argA, argB, keyA, keyB,   \* stringifyLabels
    argM, argL, outTs         \* toTimeSeries

ruleVars == <<Type, RuleID, Name, Expr, Labels, GroupID>>
statusVars == <<lastExecTime, lastExecError>>
pureVars == <<argA, argB, keyA, keyB, argM, argL, outTs>>
vars == <<Type, RuleID, Name, Expr, Labels, GroupID, mu, lastExecTime, lastExecError,
          registered, now, queries, unregistered, finals, exec, api, gauge, upd,
          argA, argB, keyA, keyB, argM, argL, outTs>>

ExecProcs == {1, 2}
ExecId(self) == IF self = 1 THEN "Exec1" ELSE "Exec2"

\* The number of the outstanding query, 0 when no query is outstanding.
Outstanding == IF \E self \in ExecProcs : exec[self].pc = "Query" THEN queries ELSE 0

None == [none |-> TRUE]

\* The locals of an Exec call that is not running.
\* used, at and qn are read by no operation of the rule: the rr.Labels each
\* round of the loop read, the time the call recorded, the number of its query.
IdleExec ==
    [pc |-> "idle", expr |-> S_empty, qMetrics |-> <<>>, err |-> NilErr, idx |-> 0,
     duplicates |-> {}, tss |-> <<>>, used |-> <<>>, at |-> 0, qn |-> 0, res |-> None]
\* during: the number of the query that was outstanding when the call started
\* (0: none was); it is read by no operation of the rule.
IdleApi == [pc |-> "idle", lastErr |-> "", out |-> None, during |-> 0]
IdleGauge == [pc |-> "idle", val |-> None, during |-> 0]
IdleUpd == [pc |-> "idle", nr |-> None, ret |-> None]

\* newRecordingRule: the rule after construction, its gauge registered.
InitRule ==
    /\ Type = TypePrometheus
    /\ RuleID = 1
    /\ Name = S_upcnt
    /\ Expr = Expr1
    /\ Labels = Labels1
    /\ GroupID = 7
    /\ mu = "free"
    /\ lastExecTime = 0
    /\ lastExecError = NilErr
    /\ registered = TRUE
    /\ now = 1
    /\ queries = 0
    /\ unregistered = 0
    /\ finals = <<>>
    /\ exec = [self \in ExecProcs |-> IdleExec]
    /\ api = IdleApi
    /\ gauge = IdleGauge
    /\ upd = IdleUpd

InitPure ==
    /\ argA = <<>>
    /\ argB = <<>>
    /\ keyA = None
    /\ keyB = None
    /\ argM = None
    /\ argL = None
    /\ outTs = None

Init == InitRule /\ InitPure

(***************************************************************************)
(* Exec, for the scheduler task self.                                      *)
(***************************************************************************)
Returned(series, tss, err) == [series |-> series, tss |-> tss, err |-> err]

\* A bug of Exec: the series=false branch resets the status.
ExecNoSeriesResetsError(self) ==
    /\ exec[self].pc = "idle"
    /\ unregistered = 0
    /\ lastExecError' = NilErr
    /\ exec' = [exec EXCEPT ![self].pc = "Return",
                            ![self].res = Returned(FALSE, <<>>, NilErr)]
    /\ UNCHANGED <<ruleVars, mu, lastExecTime, registered, now, queries, unregistered,
                   finals, api, gauge, upd, pureVars>>

\* if !series { return nil, nil }
ExecNoSeries(self) ==
    /\ exec[self].pc = "idle"
    /\ unregistered = 0
    /\ exec' = [exec EXCEPT ![self].pc = "Return",
                            ![self].res = Returned(FALSE, <<>>, NilErr)]
    /\ UNCHANGED <<ruleVars, mu, statusVars, registered, now, queries, unregistered,
                   finals, api, gauge, upd, pureVars>>

\* A bug of Exec: rr.mu.Lock() is moved above the query.
ExecQueryHoldsLock(self) ==
    /\ exec[self].pc = "idle"
    /\ unregistered = 0
    /\ queries < MaxCycles
    /\ mu = "free"
    /\ mu' = ExecId(self)
    /\ queries' = queries + 1
    /\ exec' = [exec EXCEPT ![self].pc = "Query", ![self].expr = Expr,
                            ![self].qn = queries + 1]
    /\ UNCHANGED <<ruleVars, statusVars, registered, now, unregistered, finals,
                   api, gauge, upd, pureVars>>

\* rr.q.Query(ctx, rr.Expr) is called: rr.Expr is read, no lock is taken.
ExecQuery(self) ==
    /\ exec[self].pc = "idle"
    /\ unregistered = 0
    /\ queries < MaxCycles
    /\ queries' = queries + 1
    /\ exec' = [exec EXCEPT ![self].pc = "Query", ![self].expr = Expr,
                            ![self].qn = queries + 1]
    /\ UNCHANGED <<ruleVars, mu, statusVars, registered, now, unregistered, finals,
                   api, gauge, upd, pureVars>>

\* The query returns one of `outcomes` (it may never return).
ExecQueryReturn(self, outcomes) ==
    /\ exec[self].pc = "Query"
    /\ \E r \in outcomes :
          exec' = [exec EXCEPT ![self].pc = "Lock",
                               ![self].qMetrics = r.qMetrics,
                               ![self].err = r.err]
    /\ UNCHANGED <<ruleVars, mu, statusVars, registered, now, queries, unregistered,
                   finals, api, gauge, upd, pureVars>>

\* A bug of Exec: the status is written under the read lock, which does not
\* exclude another Exec that holds it too.
ExecLockShared(self) ==
    /\ exec[self].pc = "Lock"
    /\ mu \in {"free"} \cup {ExecId(other) : other \in ExecProcs}
    /\ mu' = ExecId(self)
    /\ exec' = [exec EXCEPT ![self].pc = "SetTime"]
    /\ UNCHANGED <<ruleVars, statusVars, registered, now, queries, unregistered,
                   finals, api, gauge, upd, pureVars>>

\* rr.mu.Lock(); defer rr.mu.Unlock()
ExecLock(self) ==
    /\ exec[self].pc = "Lock"
    /\ mu = "free"
    /\ mu' = ExecId(self)
    /\ exec' = [exec EXCEPT ![self].pc = "SetTime"]
    /\ UNCHANGED <<ruleVars, statusVars, registered, now, queries, unregistered,
                   finals, api, gauge, upd, pureVars>>

\* rr.lastExecTime = time.Now()
ExecSetTime(self) ==
    /\ exec[self].pc = "SetTime"
    /\ lastExecTime' = now
    /\ now' = now + 1
    /\ exec' = [exec EXCEPT ![self].pc = "SetErr", ![self].at = now]
    /\ UNCHANGED <<ruleVars, mu, lastExecError, registered, queries, unregistered,
                   finals, api, gauge, upd, pureVars>>

\* A bug of Exec: lastExecError is written only when the query failed.
ExecSetErrOnFailureOnly(self) ==
    /\ exec[self].pc = "SetErr"
    /\ IF exec[self].err # NilErr
       THEN /\ lastExecError' = exec[self].err
            /\ exec' = [exec EXCEPT ![self].pc = "Unlock",
                                    ![self].res = Returned(TRUE, <<>>,
                                                           WrapQuery(Expr, exec[self].err))]
       ELSE /\ UNCHANGED lastExecError
            /\ exec' = [exec EXCEPT ![self].pc = "Loop", ![self].idx = 1]
    /\ UNCHANGED <<ruleVars, mu, lastExecTime, registered, now, queries, unregistered,
                   finals, api, gauge, upd, pureVars>>

\* A bug of Exec: the status stores the wrapped error that Exec returns.
ExecSetErrStoresWrapped(self) ==
    /\ exec[self].pc = "SetErr"
    /\ IF exec[self].err # NilErr
       THEN /\ lastExecError' = WrapQuery(Expr, exec[self].err)
            /\ exec' = [exec EXCEPT ![self].pc = "Unlock",
                                    ![self].res = Returned(TRUE, <<>>,
                                                           WrapQuery(Expr, exec[self].err))]
       ELSE /\ lastExecError' = exec[self].err
            /\ exec' = [exec EXCEPT ![self].pc = "Loop", ![self].idx = 1]
    /\ UNCHANGED <<ruleVars, mu, lastExecTime, registered, now, queries, unregistered,
                   finals, api, gauge, upd, pureVars>>

\* A bug of Exec: the lock covers the two status writes only and is released
\* before the loop over the metrics.
ExecSetErrReleasesLock(self) ==
    /\ exec[self].pc = "SetErr"
    /\ lastExecError' = exec[self].err
    /\ IF exec[self].err # NilErr
       THEN /\ exec' = [exec EXCEPT ![self].pc = "Unlock",
                                    ![self].res = Returned(TRUE, <<>>,
                                                           WrapQuery(Expr, exec[self].err))]
            /\ UNCHANGED mu
       ELSE /\ exec' = [exec EXCEPT ![self].pc = "Loop", ![self].idx = 1]
            /\ mu' = "free"
    /\ UNCHANGED <<ruleVars, lastExecTime, registered, now, queries, unregistered,
                   finals, api, gauge, upd, pureVars>>

\* A bug of Exec: the unlock is not deferred and the query-failure return
\* leaves without it.
ExecSetErrLeavesLocked(self) ==
    /\ exec[self].pc = "SetErr"
    /\ lastExecError' = exec[self].err
    /\ IF exec[self].err # NilErr
       THEN exec' = [exec EXCEPT ![self].pc = "Return",
                                 ![self].res = Returned(TRUE, <<>>,
                                                        WrapQuery(Expr, exec[self].err))]
       ELSE exec' = [exec EXCEPT ![self].pc = "Loop", ![self].idx = 1]
    /\ UNCHANGED <<ruleVars, mu, lastExecTime, registered, now, queries, unregistered,
                   finals, api, gauge, upd, pureVars>>

\* rr.lastExecError = err; if err != nil { return nil, fmt.Errorf(...) }
ExecSetErr(self) ==
    /\ exec[self].pc = "SetErr"
    /\ lastExecError' = exec[self].err
    /\ IF exec[self].err # NilErr
       THEN exec' = [exec EXCEPT ![self].pc = "Unlock",
                                 ![self].res = Returned(TRUE, <<>>,
                                                        WrapQuery(Expr, exec[self].err))]
       ELSE exec' = [exec EXCEPT ![self].pc = "Loop", ![self].idx = 1]
    /\ UNCHANGED <<ruleVars, mu, lastExecTime, registered, now, queries, unregistered,
                   finals, api, gauge, upd, pureVars>>

\* A bug of Exec: a series whose key was seen is dropped and the loop goes on.
ExecLoopDropsDuplicate(self) ==
    /\ exec[self].pc = "Loop"
    /\ IF exec[self].idx > Len(exec[self].qMetrics)
       THEN exec' = [exec EXCEPT ![self].pc = "Unlock",
                                 ![self].res = Returned(TRUE, exec[self].tss, NilErr)]
       ELSE LET r == exec[self].qMetrics[exec[self].idx]
            IN  \E order \in KeyOrders(toTimeSeriesLabels(Name, Labels, r)) :
                \E ts \in {toTimeSeries(Name, Labels, r, TimeUnix(r.Timestamp), order)} :
                \E key \in {stringifyLabels(ts)} :
                       IF key \in exec[self].duplicates
                       THEN exec' = [exec EXCEPT
                                   ![self].used = Append(@, Labels),
                                   ![self].idx = @ + 1]
                       ELSE exec' = [exec EXCEPT
                                   ![self].duplicates = @ \cup {key},
                                   ![self].tss = Append(@, LabelsAfterStringify(ts)),
                                   ![self].used = Append(@, Labels),
                                   ![self].idx = @ + 1]
    /\ UNCHANGED <<ruleVars, mu, statusVars, registered, now, queries, unregistered,
                   finals, api, gauge, upd, pureVars>>

\* One round of for _, r := range qMetrics, or return tss, nil after the last.
ExecLoop(self) ==
    /\ exec[self].pc = "Loop"
    /\ IF exec[self].idx > Len(exec[self].qMetrics)
       THEN /\ exec' = [exec EXCEPT ![self].pc = "Unlock",
                                    ![self].res = Returned(TRUE, exec[self].tss, NilErr)]
            /\ UNCHANGED lastExecError
       ELSE LET r == exec[self].qMetrics[exec[self].idx]
            IN  \E order \in KeyOrders(toTimeSeriesLabels(Name, Labels, r)) :
                \E ts \in {toTimeSeries(Name, Labels, r, TimeUnix(r.Timestamp), order)} :
                \E key \in {stringifyLabels(ts)} :
                       IF key \in exec[self].duplicates
                       THEN /\ lastExecError' = errDuplicate
                            /\ exec' = [exec EXCEPT
                                   ![self].pc = "Unlock",
                                   ![self].used = Append(@, Labels),
                                   ![self].res = Returned(TRUE, <<>>,
                                                          WrapDuplicate(r, key))]
                       ELSE /\ exec' = [exec EXCEPT
                                   ![self].duplicates = @ \cup {key},
                                   ![self].tss = Append(@, LabelsAfterStringify(ts)),
                                   ![self].used = Append(@, Labels),
                                   ![self].idx = @ + 1]
                            /\ UNCHANGED lastExecError
    /\ UNCHANGED <<ruleVars, mu, lastExecTime, registered, now, queries, unregistered,
                   finals, api, gauge, upd, pureVars>>

\* The deferred rr.mu.Unlock().
ExecUnlock(self) ==
    /\ exec[self].pc = "Unlock"
    /\ mu' = "free"
    /\ finals' = Append(finals, [time |-> lastExecTime, err |-> lastExecError,
                                  qn |-> exec[self].qn, at |-> exec[self].at,
                                  failed |-> exec[self].res.err # NilErr])
    /\ exec' = [exec EXCEPT ![self].pc = "Return"]
    /\ UNCHANGED <<ruleVars, statusVars, registered, now, queries, unregistered,
                   api, gauge, upd, pureVars>>

\* The caller has taken what Exec returned.
ExecReturn(self) ==
    /\ exec[self].pc = "Return"
    /\ exec' = [exec EXCEPT ![self] = IdleExec]
    /\ UNCHANGED <<ruleVars, mu, statusVars, registered, now, queries, unregistered,
                   finals, api, gauge, upd, pureVars>>

Exec(self, outcomes) ==
    \/ ExecNoSeries(self)
    \/ ExecQuery(self)
    \/ ExecQueryReturn(self, outcomes)
    \/ ExecLock(self)
    \/ ExecSetTime(self)
    \/ ExecSetErr(self)
    \/ ExecLoop(self)
    \/ ExecUnlock(self)
    \/ ExecReturn(self)

(***************************************************************************)
(* The health gauge's callback, called by the metrics scrape while the     *)
(* gauge is registered.                                                    *)
(***************************************************************************)
\* rr.mu.Lock(); defer rr.mu.Unlock()
GaugeLock ==
    /\ gauge.pc = "idle"
    /\ registered
    /\ mu = "free"
    /\ mu' = "Gauge"
    /\ gauge' = [gauge EXCEPT !.pc = "Read", !.during = Outstanding]
    /\ UNCHANGED <<ruleVars, statusVars, registered, now, queries, unregistered,
                   finals, exec, api, upd, pureVars>>

\* if rr.lastExecError == nil { return 0 }; return 1
GaugeRead ==
    /\ gauge.pc = "Read"
    /\ gauge' = [gauge EXCEPT !.pc = "Return",
                              !.val = IF lastExecError = NilErr THEN 0 ELSE 1]
    /\ mu' = "free"
    /\ UNCHANGED <<ruleVars, statusVars, registered, now, queries, unregistered,
                   finals, exec, api, upd, pureVars>>

\* The scrape has taken the value.
GaugeReturn ==
    /\ gauge.pc = "Return"
    /\ gauge' = IdleGauge
    /\ UNCHANGED <<ruleVars, mu, statusVars, registered, now, queries, unregistered,
                   finals, exec, api, upd, pureVars>>

Gauge == GaugeLock \/ GaugeRead \/ GaugeReturn

(***************************************************************************)
(* UpdateWith and Close, called by the owning group.                       *)
(***************************************************************************)
\* A bug of UpdateWith: the name of the rule is copied too.
UpdateWithExprAndName(r) ==
    /\ upd.pc = "idle"
    /\ unregistered = 0
    /\ IF r.rule # "RecordingRule"
       THEN /\ upd' = [pc |-> "Return", nr |-> r, ret |-> WrongTypeErr(r)]
            /\ UNCHANGED <<Expr, Name>>
       ELSE /\ Expr' = r.Expr
            /\ Name' = r.Name
            /\ upd' = [pc |-> "Labels", nr |-> r, ret |-> None]
    /\ UNCHANGED <<Type, RuleID, Labels, GroupID, mu, statusVars, registered,
                   now, queries, unregistered, finals, exec, api, gauge, pureVars>>

\* A bug of UpdateWith: the type of r is not checked.
UpdateWithExprUnchecked(r) ==
    /\ upd.pc = "idle"
    /\ unregistered = 0
    /\ Expr' = r.Expr
    /\ upd' = [pc |-> "Labels", nr |-> r, ret |-> None]
    /\ UNCHANGED <<Type, RuleID, Name, Labels, GroupID, mu, statusVars, registered,
                   now, queries, unregistered, finals, exec, api, gauge, pureVars>>

\* nr, ok := r.(*RecordingRule); if !ok { return error }; rr.Expr = nr.Expr
UpdateWithExpr(r) ==
    /\ upd.pc = "idle"
    /\ unregistered = 0
    /\ IF r.rule # "RecordingRule"
       THEN /\ upd' = [pc |-> "Return", nr |-> r, ret |-> WrongTypeErr(r)]
            /\ UNCHANGED Expr
       ELSE /\ Expr' = r.Expr
            /\ upd' = [pc |-> "Labels", nr |-> r, ret |-> None]
    /\ UNCHANGED <<Type, RuleID, Name, Labels, GroupID, mu, statusVars, registered,
                   now, queries, unregistered, finals, exec, api, gauge, pureVars>>

\* A bug of UpdateWith: the gauge is unregistered and created again for the
\* updated rule.
UpdateWithLabelsRecreatesGauge ==
    /\ upd.pc = "Labels"
    /\ Labels' = upd.nr.Labels
    /\ unregistered' = unregistered + 1
    /\ upd' = [upd EXCEPT !.pc = "Return", !.ret = NilErr]
    /\ UNCHANGED <<Type, RuleID, Name, Expr, GroupID, mu, statusVars, registered,
                   now, queries, finals, exec, api, gauge, pureVars>>

\* rr.Labels = nr.Labels; return nil
UpdateWithLabels ==
    /\ upd.pc = "Labels"
    /\ Labels' = upd.nr.Labels
    /\ upd' = [upd EXCEPT !.pc = "Return", !.ret = NilErr]
    /\ UNCHANGED <<Type, RuleID, Name, Expr, GroupID, mu, statusVars, registered,
                   now, queries, unregistered, finals, exec, api, gauge, pureVars>>

\* The group has taken what UpdateWith returned.
UpdateWithReturn ==
    /\ upd.pc = "Return"
    /\ upd' = IdleUpd
    /\ UNCHANGED <<ruleVars, mu, statusVars, registered, now, queries, unregistered,
                   finals, exec, api, gauge, pureVars>>

UpdateWith == (\E r \in UpdateArgs : UpdateWithExpr(r)) \/ UpdateWithLabels \/ UpdateWithReturn

\* metrics.UnregisterMetric(rr.metrics.errors.name), once the group has stopped
\* calling the rule.
Close ==
    /\ unregistered = 0
    /\ \A self \in ExecProcs : exec[self].pc = "idle"
    /\ upd.pc = "idle"
    /\ registered' = FALSE
    /\ unregistered' = unregistered + 1
    /\ UNCHANGED <<ruleVars, mu, statusVars, now, queries, finals, exec, api,
                   gauge, upd, pureVars>>

(***************************************************************************)
(* RuleAPI, called by the status handler. It takes no lock.                *)
(***************************************************************************)
\* fmt.Sprintf("%d", n)
RECURSIVE FormatUint(_)
FormatUint(n) ==
    IF n < 10 THEN <<48 + n>> ELSE FormatUint(n \div 10) \o <<48 + (n % 10)>>

\* datasource.Type.String()
TypeString(t) == t.name

\* if rr.lastExecError != nil
ApiCheckErr ==
    /\ api.pc = "idle"
    /\ api' = [api EXCEPT !.pc = IF lastExecError # NilErr THEN "ErrString" ELSE "Fields",
                          !.during = Outstanding]
    /\ UNCHANGED <<ruleVars, mu, statusVars, registered, now, queries, unregistered,
                   finals, exec, gauge, upd, pureVars>>

\* lastErr = rr.lastExecError.Error(): the field is read again, and the call
\* panics when it has become nil.
ApiErrString ==
    /\ api.pc = "ErrString"
    /\ IF lastExecError = NilErr
       THEN api' = [api EXCEPT !.pc = "Return",
                               !.out = [panic |-> "nil pointer dereference"]]
       ELSE api' = [api EXCEPT !.pc = "Fields", !.lastErr = ErrorString(lastExecError)]
    /\ UNCHANGED <<ruleVars, mu, statusVars, registered, now, queries, unregistered,
                   finals, exec, gauge, upd, pureVars>>

\* ID, GroupID, Name, Type, Expression of the APIRecordingRule literal.
ApiFields ==
    /\ api.pc = "Fields"
    /\ api' = [api EXCEPT !.pc = "LastExec",
                          !.out = [ID |-> FormatUint(RuleID),
                                   GroupID |-> FormatUint(GroupID),
                                   Name |-> Name,
                                   Type |-> TypeString(Type),
                                   Expression |-> Expr]]
    /\ UNCHANGED <<ruleVars, mu, statusVars, registered, now, queries, unregistered,
                   finals, exec, gauge, upd, pureVars>>

\* LastError: lastErr, LastExec: rr.lastExecTime
ApiLastExec ==
    /\ api.pc = "LastExec"
    /\ api' = [api EXCEPT !.pc = "Labels",
                          !.out = [ID |-> @.ID, GroupID |-> @.GroupID, Name |-> @.Name,
                                   Type |-> @.Type, Expression |-> @.Expression,
                                   LastError |-> api.lastErr,
                                   LastExec |-> lastExecTime]]
    /\ UNCHANGED <<ruleVars, mu, statusVars, registered, now, queries, unregistered,
                   finals, exec, gauge, upd, pureVars>>

\* Labels: rr.Labels, and the return of the APIRecordingRule.
ApiLabels ==
    /\ api.pc = "Labels"
    /\ api' = [api EXCEPT !.pc = "Return",
                          !.out = [ID |-> @.ID, GroupID |-> @.GroupID, Name |-> @.Name,
                                   Type |-> @.Type, Expression |-> @.Expression,
                                   LastError |-> @.LastError, LastExec |-> @.LastExec,
                                   Labels |-> Labels]]
    /\ UNCHANGED <<ruleVars, mu, statusVars, registered, now, queries, unregistered,
                   finals, exec, gauge, upd, pureVars>>

\* The status handler has taken the APIRecordingRule (or recovered the panic).
ApiReturn ==
    /\ api.pc = "Return"
    /\ api' = IdleApi
    /\ UNCHANGED <<ruleVars, mu, statusVars, registered, now, queries, unregistered,
                   finals, exec, gauge, upd, pureVars>>

RuleAPI ==
    ApiCheckErr \/ ApiErrString \/ ApiFields \/ ApiLastExec \/ ApiLabels \/ ApiReturn

(***************************************************************************)
(* Spec: the callers call the rule one after another; a call starts when   *)
(* no other is running. The query returns any of QueryOutcomes.            *)
(***************************************************************************)
\* No caller but p is in a call.
Alone(p) ==
    /\ p = "exec" \/ \A self \in ExecProcs : exec[self].pc = "idle"
    /\ p = "gauge" \/ gauge.pc = "idle"
    /\ p = "api" \/ api.pc = "idle"
    /\ p = "upd" \/ upd.pc = "idle"

Next ==
    \/ Alone("exec") /\ ExecNoSeries(1)
    \/ Alone("exec") /\ ExecQuery(1)
    \/ Alone("exec") /\ ExecQueryReturn(1, QueryOutcomes)
    \/ Alone("exec") /\ ExecLock(1)
    \/ Alone("exec") /\ ExecSetTime(1)
    \/ Alone("exec") /\ ExecSetErr(1)
    \/ Alone("exec") /\ ExecLoop(1)
    \/ Alone("exec") /\ ExecUnlock(1)
    \/ Alone("exec") /\ ExecReturn(1)
    \/ Alone("gauge") /\ GaugeLock
    \/ Alone("gauge") /\ GaugeRead
    \/ Alone("gauge") /\ GaugeReturn
    \/ Alone("api") /\ ApiCheckErr
    \/ Alone("api") /\ ApiErrString
    \/ Alone("api") /\ ApiFields
    \/ Alone("api") /\ ApiLastExec
    \/ Alone("api") /\ ApiLabels
    \/ Alone("api") /\ ApiReturn
    \/ Alone("upd") /\ \E r \in UpdateArgs : UpdateWithExpr(r)
    \/ Alone("upd") /\ UpdateWithLabels
    \/ Alone("upd") /\ UpdateWithReturn
    \/ Alone("none") /\ Close

Spec == Init /\ [][Next]_vars

(***************************************************************************)
(* SpecReaders: the scheduler runs one Exec at a time while the metrics    *)
(* scrape and the status handler call the gauge and RuleAPI at any moment. *)
(***************************************************************************)
ReaderOutcomes ==
    {[qMetrics |-> <<>>, err |-> NilErr],
     [qMetrics |-> <<mJobA, mJobB>>, err |-> NilErr],
     [qMetrics |-> <<mJobA, mUpDev>>, err |-> NilErr],
     [qMetrics |-> <<>>, err |-> errCanceled],
     [qMetrics |-> <<>>, err |-> errBackend]}

NextReaders ==
    \/ Exec(1, ReaderOutcomes)
    \/ Gauge
    \/ RuleAPI
    \/ Close

SpecReaders == Init /\ [][NextReaders]_vars

(***************************************************************************)
(* SpecReload: the configuration reload calls UpdateWith at any moment of  *)
(* an Exec cycle and of a RuleAPI call.                                    *)
(***************************************************************************)
ReloadOutcomes ==
    {[qMetrics |-> <<mJobA>>, err |-> NilErr],
     [qMetrics |-> <<mJobA, mJobB>>, err |-> NilErr],
     [qMetrics |-> <<>>, err |-> errCanceled]}

NextReload ==
    \/ Exec(1, ReloadOutcomes)
    \/ UpdateWith
    \/ RuleAPI

SpecReload == Init /\ [][NextReload]_vars

(***************************************************************************)
(* SpecConc: two scheduler tasks call Exec on the same rule at the same    *)
(* time, while the metrics scrape calls the gauge.                         *)
(***************************************************************************)
ConcOutcomes ==
    {[qMetrics |-> <<mJobA>>, err |-> NilErr],
     [qMetrics |-> <<mJobA, mUpDev>>, err |-> NilErr],
     [qMetrics |-> <<>>, err |-> errCanceled]}

NextConc ==
    \/ Exec(1, ConcOutcomes)
    \/ Exec(2, ConcOutcomes)
    \/ Gauge

SpecConc == Init /\ [][NextConc]_vars

(***************************************************************************)
(* SpecFair: SpecConc under fair scheduling. A task that is running takes  *)
(* its next step; sync.RWMutex hands the lock to a waiter that keeps       *)
(* waiting (a waiter of more than 1ms gets the lock next), and the scrape  *)
(* keeps calling the gauge. Nothing makes the scheduler start an Exec or   *)
(* the query return.                                                       *)
(***************************************************************************)
FairScheduling ==
    /\ \A self \in ExecProcs :
          /\ SF_vars(ExecLock(self))
          /\ WF_vars(ExecSetTime(self))
          /\ WF_vars(ExecSetErr(self))
          /\ WF_vars(ExecLoop(self))
          /\ WF_vars(ExecUnlock(self))
          /\ WF_vars(ExecReturn(self))
    /\ SF_vars(GaugeLock)
    /\ WF_vars(GaugeRead)
    /\ WF_vars(GaugeReturn)

SpecFair == Init /\ [][NextConc]_vars /\ FairScheduling

(***************************************************************************)
(* SpecPure: stringifyLabels and toTimeSeries applied on their own, to     *)
(* every input of a bounded set.                                           *)
(***************************************************************************)
S_ab == <<97, 98>>                                 \* "ab"
PureNames == {S_a, S_ab, S_b}
PureValues == {S_1, S_2, S_1b2}
PureLabels == {Label(n, v) : n \in PureNames, v \in PureValues}

\* The label sequences newTimeSeries can build: no name twice.
LabelSeqs == {ls \in SeqsUpTo(PureLabels, MaxLabels) : UniqueNames(ls)}

\* A metric whose label sequence names job twice.
mJobTwice == Metric(<<Label(S_job, S_a), Label(S_job, S_b)>>, 6, 60)
PureMetrics == MetricUniverse \cup {mJobTwice}

\* The static labels of a rule: every map from some of __name__, job, env.
StaticLabels ==
    UNION {[D -> {S_x, S_prod}] : D \in SUBSET {S_name, S_job, S_env}}

InitStringify ==
    /\ argA \in LabelSeqs
    /\ argB \in LabelSeqs
    /\ keyA = None
    /\ keyB = None
    /\ argM = None
    /\ argL = None
    /\ outTs = None

InitToTimeSeries ==
    /\ argA = <<>>
    /\ argB = <<>>
    /\ keyA = None
    /\ keyB = None
    /\ argM \in PureMetrics
    /\ argL \in StaticLabels
    /\ outTs = None

StringifyA ==
    /\ argM = None
    /\ keyA = None
    /\ keyA' = stringifyLabels([Labels |-> argA])
    /\ UNCHANGED <<ruleVars, mu, statusVars, registered, now, queries, unregistered,
                   finals, exec, api, gauge, upd, argA, argB, keyB, argM, argL, outTs>>

StringifyB ==
    /\ argM = None
    /\ keyB = None
    /\ keyB' = stringifyLabels([Labels |-> argB])
    /\ UNCHANGED <<ruleVars, mu, statusVars, registered, now, queries, unregistered,
                   finals, exec, api, gauge, upd, argA, argB, keyA, argM, argL, outTs>>

ApplyToTimeSeries ==
    /\ argM # None
    /\ outTs = None
    /\ \E order \in KeyOrders(toTimeSeriesLabels(Name, argL, argM)) :
          outTs' = toTimeSeries(Name, argL, argM, TimeUnix(argM.Timestamp), order)
    /\ UNCHANGED <<ruleVars, mu, statusVars, registered, now, queries, unregistered,
                   finals, exec, api, gauge, upd, argA, argB, keyA, keyB, argM, argL>>

NextPure == StringifyA \/ StringifyB \/ ApplyToTimeSeries

InitPureInputs == InitRule /\ (InitStringify \/ InitToTimeSeries)

SpecPure == InitPureInputs /\ [][NextPure]_vars

(***************************************************************************)
(* The claims.                                                             *)
(***************************************************************************)
\* The message RuleAPI shows for an error: "" for nil.
ShownError(e) == IF e = NilErr THEN "" ELSE ErrorString(e)

\* The (lastExecTime, lastExecError message) pairs a reader that holds the lock
\* can see: the zero status, and the status each completed cycle left.
StatusOfOneCycle ==
    {<<0, "">>}
    \cup {<<finals[k].time, ShownError(finals[k].err)>> : k \in 1..Len(finals)}

ApiShowsRule == api.pc = "Return" /\ "LastExec" \in DOMAIN api.out

\* C1: with one Exec cycle at a time and readers at any moment, the
\* (LastExec, LastError) pair a RuleAPI call returns is the status one completed
\* Exec cycle left (or the zero status), never a time of one cycle with the
\* error of another. Stated for the calls that return while no Exec is running.
C1_ApiStatusOfOneCycle ==
    (ApiShowsRule /\ \A self \in ExecProcs : exec[self].pc = "idle")
        => <<api.out.LastExec, api.out.LastError>> \in StatusOfOneCycle

\* The final label set of metric m under a rule named rrName with static labels
\* rrLabels: the static labels, __name__ = rrName unless a static label names
\* it, and every other label of the metric (its last value, if named twice).
FinalLabelSet(rrName, rrLabels, m) ==
    {<<k, rrLabels[k]>> : k \in DOMAIN rrLabels}
    \cup {<<S_name, rrName>> : x \in IF S_name \in DOMAIN rrLabels THEN {} ELSE {1}}
    \cup {<<m.Labels[p].Name, m.Labels[p].Value>> :
             p \in {q \in 1..Len(m.Labels) :
                      /\ m.Labels[q].Name \notin DOMAIN rrLabels \cup {S_name}
                      /\ \A r \in (q + 1)..Len(m.Labels) :
                            m.Labels[r].Name # m.Labels[q].Name}}

\* An Exec(series=true) whose query succeeded has computed what it returns.
ExecDone(self) ==
    /\ exec[self].pc \in {"Unlock", "Return"}
    /\ exec[self].res.series
    /\ exec[self].err = NilErr

\* The final label sets of the metrics Exec has gone through, in order.
FinalSets(self) ==
    [p \in 1..Len(exec[self].used) |->
        FinalLabelSet(Name, exec[self].used[p], exec[self].qMetrics[p])]

\* C2: when two metrics of the query result have the same final label set, Exec
\* returns no series and an error wrapping errDuplicate, and lastExecError is
\* errDuplicate; an Exec that returns an error returns no series, one that
\* returns none has gone through every metric, and the series of a returned
\* batch have pairwise different label sets.
C2_DuplicateFailsCycle ==
    \A self \in ExecProcs :
        ExecDone(self) =>
            LET e == exec[self]
                sets == FinalSets(self)
            IN  /\ (\E p, q \in 1..Len(sets) : p < q /\ sets[p] = sets[q])
                      => /\ e.res.tss = <<>>
                         /\ e.res.err # errDuplicate
                         /\ ErrIs(e.res.err, errDuplicate)
                         /\ lastExecError = errDuplicate
                /\ e.res.err # NilErr => e.res.tss = <<>>
                /\ e.res.err = NilErr
                      => /\ Len(e.used) = Len(e.qMetrics)
                         /\ Len(e.res.tss) = Len(e.qMetrics)
                /\ \A p, q \in 1..Len(e.res.tss) :
                      p < q => PairSet(e.res.tss[p].Labels) # PairSet(e.res.tss[q].Labels)

\* An Exec has returned the duplicate error for two metrics whose final label
\* sets are the same.
C2_Witness ==
    /\ exec[1].pc = "Return"
    /\ ExecDone(1)
    /\ exec[1].qMetrics = <<mJobA, mUpDev>>
    /\ FinalSets(1)[1] = FinalSets(1)[2]
    /\ ErrIs(exec[1].res.err, errDuplicate)
    /\ lastExecError = errDuplicate

\* C3: label sets that differ as sets of (name, value) pairs get different keys
\* from stringifyLabels, also when a value holds ',' or '='.
C3_KeysDiffer ==
    (keyA # None /\ keyB # None /\ PairSet(argA) # PairSet(argB)) => keyA # keyB

\* The strings of ss joined by sep.
RECURSIVE Join(_, _)
Join(ss, sep) ==
    IF ss = <<>> THEN S_empty
    ELSE IF Len(ss) = 1 THEN ss[1]
    ELSE ss[1] \o sep \o Join(Tail(ss), sep)

\* The pairs of a label set with unique names, in ascending order of the names.
Ascending(pairs) ==
    CHOOSE o \in [1..Cardinality(pairs) -> pairs] :
        \A p, q \in 1..Cardinality(pairs) : p < q => StrLess(o[p][1], o[q][1])

\* name=value of every pair, in ascending order of the names, joined by commas.
CanonicalString(pairs) ==
    LET o == Ascending(pairs)
    IN  Join([p \in 1..Cardinality(pairs) |-> o[p][1] \o S_eq \o o[p][2]], S_comma)

\* C4: for labels with unique names, stringifyLabels gives the name=value pairs
\* in ascending order of the names, joined by single commas with none trailing,
\* so two orderings of one label set get one string; no label gives "", one
\* label gives name=value.
C4_KeyIsCanonical ==
    /\ keyA # None => keyA = CanonicalString(PairSet(argA))
    /\ keyB # None => keyB = CanonicalString(PairSet(argB))
    /\ (keyA # None /\ keyB # None /\ PairSet(argA) = PairSet(argB)) => keyA = keyB
    /\ (keyA # None /\ argA = <<>>) => keyA = S_empty
    /\ (keyA # None /\ Len(argA) = 1) => keyA = argA[1].Name \o S_eq \o argA[1].Value

\* Two orderings of a two-label set have been stringified.
C4_Witness ==
    /\ keyA # None
    /\ keyB # None
    /\ Len(argA) = 2
    /\ argA # argB
    /\ PairSet(argA) = PairSet(argB)

\* C5: Exec with series=false returns no series and a nil error, calls no query,
\* takes no lock, and leaves lastExecTime, lastExecError, Expr, Labels (and every
\* other field of the rule) as they were.
C5_NoSeriesChangesNothing ==
    [][\A self \in ExecProcs :
          (exec[self].pc = "idle" /\ exec'[self].pc = "Return")
              => /\ exec'[self].res = Returned(FALSE, <<>>, NilErr)
                 /\ UNCHANGED <<lastExecTime, lastExecError, Expr, Labels, queries,
                                Type, RuleID, Name, GroupID, mu, registered, now>>]_vars

\* Exec(series=false) has returned on a rule whose last cycle failed and whose
\* config was updated.
C5_Witness ==
    /\ exec[1].pc = "Return"
    /\ ~exec[1].res.series
    /\ lastExecError = errDuplicate
    /\ lastExecTime = 2
    /\ Expr = Expr2

\* C6: when an Exec(series=true) has returned, lastExecError is non-nil exactly
\* when the call returned a non-nil error, and lastExecTime is the time that
\* call recorded.
C6_StatusMatchesReturn ==
    \A self \in ExecProcs :
        (exec[self].pc = "Return" /\ exec[self].res.series)
            => /\ (lastExecError # NilErr) <=> (exec[self].res.err # NilErr)
               /\ exec[self].at > 0
               /\ lastExecTime = exec[self].at
               /\ finals[Len(finals)].time = exec[self].at
               /\ finals[Len(finals)].err = lastExecError

\* After a cycle whose query failed, a cycle with a successful query has
\* returned the duplicate error.
C6_Witness ==
    /\ exec[1].pc = "Return"
    /\ exec[1].res.series
    /\ ErrIs(exec[1].res.err, errDuplicate)
    /\ Len(finals) = 2
    /\ finals[1].err = errCanceled
    /\ lastExecTime = 2

\* The label names of a label sequence.
NamesOf(labels) == {labels[p].Name : p \in 1..Len(labels)}

\* The value of the last label named n in a label sequence.
LastValue(labels, n) ==
    labels[CHOOSE p \in 1..Len(labels) :
              /\ labels[p].Name = n
              /\ \A q \in (p + 1)..Len(labels) : labels[q].Name # n].Value

\* C7: the series toTimeSeries builds for a metric has each label name once:
\* every static label of the rule with its configured value (also __name__ and
\* a name the metric has), __name__ with the rule's Name when no static label
\* names it, every other label of the metric with its queried value, and no
\* other label.
C7_StaticLabelsOverride ==
    outTs # None =>
        LET out == outTs.Labels
        IN  /\ UniqueNames(out)
            /\ NamesOf(out) = NamesOf(argM.Labels) \cup {S_name} \cup DOMAIN argL
            /\ \A p \in 1..Len(out) :
                  out[p].Value =
                      IF out[p].Name \in DOMAIN argL THEN argL[out[p].Name]
                      ELSE IF out[p].Name = S_name THEN Name
                      ELSE LastValue(argM.Labels, out[p].Name)

\* toTimeSeries has been applied to a metric that has __name__ and job, for a
\* rule whose static labels name __name__ and job.
C7_Witness ==
    /\ outTs # None
    /\ argM = mUpDev
    /\ DOMAIN argL = {S_name, S_job}
    /\ \E p \in 1..Len(outTs.Labels) : outTs.Labels[p] = Label(S_env, S_dev)

\* What RuleAPI shows of a rule, field by field.
ApiShowsFields ==
    (ApiShowsRule /\ "Labels" \in DOMAIN api.out)
        => /\ api.out.ID = FormatUint(RuleID)
           /\ api.out.GroupID = FormatUint(GroupID)
           /\ api.out.Name = Name
           /\ api.out.Expression = Expr
           /\ api.out.Labels = Labels
           /\ api.out.LastExec = lastExecTime
           /\ api.out.LastError = ShownError(lastExecError)

\* C8: UpdateWith with a RecordingRule returns nil, sets Expr and Labels to the
\* argument's and leaves RuleID, GroupID, Name, Type, lastExecTime,
\* lastExecError and the gauge's registration as they were; RuleAPI shows the
\* fields as they are, so it shows the same identity and status before and
\* after, and the new Expr and Labels.
C8_UpdateWithCopiesConfigOnly ==
    /\ []ApiShowsFields
    /\ [][(upd.pc # upd'.pc /\ upd'.pc # "idle" /\ upd'.nr.rule = "RecordingRule")
             => /\ UNCHANGED <<RuleID, GroupID, Name, Type, lastExecTime, lastExecError,
                               registered, unregistered, mu>>
                /\ Expr' = upd'.nr.Expr
                /\ upd'.pc = "Return"
                      => /\ Labels' = upd'.nr.Labels
                         /\ upd'.ret = NilErr]_vars

\* UpdateWith has returned nil on a rule whose last cycle failed, and the rule
\* has the argument's Expr and Labels.
C8_Witness ==
    /\ upd.pc = "Return"
    /\ upd.ret = NilErr
    /\ Expr = Expr2
    /\ Labels = Labels2
    /\ Name = S_upcnt
    /\ lastExecError = errBackend
    /\ lastExecTime = 1

\* C9: UpdateWith with a rule that is no RecordingRule returns an error at once
\* and leaves every field of the rule as it was.
C9_WrongTypeChangesNothing ==
    /\ []((upd.pc # "idle" /\ upd.nr.rule # "RecordingRule")
             => /\ upd.pc = "Return"
                /\ upd.ret = WrongTypeErr(upd.nr)
                /\ upd.ret # NilErr)
    /\ [][(upd.pc = "idle" /\ upd'.pc # "idle" /\ upd'.nr.rule # "RecordingRule")
             => UNCHANGED <<ruleVars, statusVars, mu, registered, unregistered>>]_vars

\* UpdateWith has returned its error for an alerting rule, on a rule whose
\* config an earlier UpdateWith set and whose last cycle failed.
C9_Witness ==
    /\ upd.pc = "Return"
    /\ upd.nr.rule = "AlertingRule"
    /\ upd.ret # NilErr
    /\ Expr = Expr2
    /\ Labels = Labels2
    /\ lastExecError = errCanceled

\* The status the cycle before cycle k left: the zero status before the first.
PrevStatus(k) == IF k = 1 THEN [time |-> 0, err |-> NilErr] ELSE finals[k - 1]

ExecFailed(self) ==
    /\ exec[self].pc \in {"Unlock", "Return"}
    /\ exec[self].res.series
    /\ exec[self].err # NilErr

\* C11: when the query fails (a cancelled context or a failing backend), Exec
\* returns no series and an error that is not the query's error but wraps it,
\* has built no time series, and leaves lastExecError the query's error itself
\* and lastExecTime the time this cycle recorded.
C11_QueryFailureIsRecorded ==
    \A self \in ExecProcs :
        ExecFailed(self) =>
            LET e == exec[self]
            IN  /\ e.res.tss = <<>>
                /\ e.res.err # NilErr
                /\ e.res.err # e.err
                /\ e.res.err.cause = e.err
                /\ ErrIs(e.res.err, e.err)
                /\ e.tss = <<>>
                /\ e.used = <<>>
                /\ e.duplicates = {}
                /\ lastExecError = e.err
                /\ e.at > 0
                /\ lastExecTime = e.at

\* After a successful cycle, an Exec whose context was cancelled has returned.
C11_Witness ==
    /\ exec[1].pc = "Return"
    /\ ExecFailed(1)
    /\ exec[1].err = errCanceled
    /\ Len(finals) = 2
    /\ finals[1].err = NilErr
    /\ lastExecTime = 2

\* The status the latest completed cycle left: the zero status before the first.
LatestStatus == IF finals = <<>> THEN [time |-> 0, err |-> NilErr] ELSE finals[Len(finals)]

HasFinalLabels(ts, rrName, rrLabels, m) ==
    /\ UniqueNames(ts.Labels)
    /\ PairSet(ts.Labels) = FinalLabelSet(rrName, rrLabels, m)

\* C13: when the query succeeds and the final label sets of its metrics are
\* pairwise different, Exec returns a nil error and one series per metric, in
\* the order of the metrics, each with the metric's final label set and one
\* sample of the metric's value at the metric's own timestamp, and lastExecError
\* is nil.
C13_SuccessReturnsAllSeries ==
    \A self \in ExecProcs :
        (/\ exec[self].pc = "Return"
         /\ exec[self].res.series
         /\ exec[self].err = NilErr
         /\ \A p, q \in 1..Len(exec[self].qMetrics) :
               p < q => FinalLabelSet(Name, Labels, exec[self].qMetrics[p])
                            # FinalLabelSet(Name, Labels, exec[self].qMetrics[q]))
            => LET e == exec[self]
               IN  /\ e.res.err = NilErr
                   /\ lastExecError = NilErr
                   /\ Len(e.res.tss) = Len(e.qMetrics)
                   /\ \A p \in 1..Len(e.res.tss) :
                         /\ HasFinalLabels(e.res.tss[p], Name, Labels, e.qMetrics[p])
                         /\ e.res.tss[p].Samples =
                               <<[Value |-> e.qMetrics[p].Value,
                                  Timestamp |-> TimeUnix(e.qMetrics[p].Timestamp)]>>

\* C14: the gauge callback reads lastExecError while it holds the lock and
\* returns 1 if it is non-nil, 0 otherwise. Exec holds the lock from before its
\* first status write until its deferred unlock, so the callback cannot take the
\* lock in between and what it reads is the status the latest completed cycle
\* left (the zero status before the first): it returns 1 after a cycle that
\* ended with the duplicate error, never the nil written before the loop.
C14_GaugeReadsFinalStatus ==
    /\ [](\A self \in ExecProcs :
             exec[self].pc \in {"SetTime", "SetErr", "Loop", "Unlock"}
                 => /\ mu = ExecId(self)
                    /\ gauge.pc # "Read"
                    /\ ~ENABLED GaugeLock)
    /\ [](gauge.pc = "Read"
             => /\ mu = "Gauge"
                /\ lastExecError = LatestStatus.err
                /\ lastExecTime = LatestStatus.time)
    /\ [][(gauge.pc = "Read" /\ gauge'.pc = "Return")
             => /\ gauge'.val = (IF lastExecError = NilErr THEN 0 ELSE 1)
                /\ gauge'.val = (IF LatestStatus.err = NilErr THEN 0 ELSE 1)
                /\ LatestStatus.err = errDuplicate => gauge'.val = 1]_vars

\* After a failed cycle, the second cycle is in its loop, holding the lock, with
\* the nil it wrote before the loop in lastExecError, about to find the
\* duplicate; the gauge callback returned 1 before that cycle took the lock.
C14_Witness ==
    /\ exec[1].pc = "Loop"
    /\ exec[1].qMetrics = <<mJobA, mUpDev>>
    /\ exec[1].idx = 2
    /\ lastExecError = NilErr
    /\ LatestStatus.err = errDuplicate
    /\ gauge.pc = "Return"
    /\ gauge.val = 1

\* A step of Close: the one step that takes no caller from one place to another.
CloseStep == UNCHANGED <<exec, api, gauge, upd>>

\* C15: the gauge is registered from the construction of the rule; no step of
\* Exec, UpdateWith, RuleAPI or the gauge callback changes the registration or
\* calls metrics.UnregisterMetric; the Close of the owning group makes one call
\* of it and leaves the gauge unregistered, and nothing registers it again.
C15_OnlyCloseUnregisters ==
    /\ [](registered <=> unregistered = 0)
    /\ [][(registered' # registered \/ unregistered' # unregistered)
             => /\ CloseStep
                /\ registered
                /\ ~registered'
                /\ unregistered' = unregistered + 1]_vars

\* The rule has been closed after two cycles and an update of its config.
C15_Witness ==
    /\ ~registered
    /\ unregistered = 1
    /\ Len(finals) = 2
    /\ Expr = Expr2
    /\ Labels = Labels2

\* UpdateWith is about to write rr.Labels while Exec or RuleAPI is about to read
\* it, and nothing orders the two accesses.
LabelsRace ==
    /\ upd.pc = "Labels"
    /\ \/ \E self \in ExecProcs :
             /\ exec[self].pc = "Loop"
             /\ exec[self].idx <= Len(exec[self].qMetrics)
       \/ api.pc = "Labels"

\* C16: the writes of the rule's mutable fields exclude the reads of them:
\* UpdateWith is never about to write Labels while Exec, inside its locked
\* section, or RuleAPI is about to read it, and Exec holds the lock wherever it
\* writes lastExecTime and lastExecError.
C16_NoRaceOnConfig ==
    /\ ~LabelsRace
    /\ \A self \in ExecProcs :
          exec[self].pc \in {"SetTime", "SetErr", "Loop", "Unlock"} => mu = ExecId(self)

\* The versions of the rule config: the one of construction, the updated one.
Configs == {[Expr |-> Expr1, Labels |-> Labels1], [Expr |-> Expr2, Labels |-> Labels2]}

\* C17: an Exec(series=true) cycle uses one version of the config: the
\* expression it queried, the expression its query-failure error names and the
\* static labels each round of its loop overlaid are the Expr and Labels of one
\* version.
C17_OneConfigPerCycle ==
    \A self \in ExecProcs :
        (exec[self].pc \in {"Unlock", "Return"} /\ exec[self].res.series)
            => \E c \in Configs :
                  /\ exec[self].expr = c.Expr
                  /\ exec[self].err # NilErr => exec[self].res.err.expr = c.Expr
                  /\ \A p \in 1..Len(exec[self].used) : exec[self].used[p] = c.Labels

\* C18: an Exec that has returned (with series=false, after a failed query,
\* after a duplicate, after a success) does not hold the lock, nor does one that
\* has not reached rr.mu.Lock(); under fair scheduling a held lock is released,
\* an Exec that waits for the lock gets it and returns, and the gauge callback
\* gets the lock and returns again and again.
C18_LockIsAlwaysReleased ==
    /\ [](\A self \in ExecProcs :
             exec[self].pc \in {"idle", "Query", "Lock", "Return"} => mu # ExecId(self))
    /\ (mu # "free") ~> (mu = "free")
    /\ \A self \in ExecProcs : (exec[self].pc = "Lock") ~> (exec[self].pc = "Return")
    /\ []<>(gauge.pc = "Return")

\* An Exec has returned its query's failure, and the other Exec, which waited
\* for the lock meanwhile, holds it now.
C18_Witness ==
    /\ exec[1].pc = "Return"
    /\ ExecFailed(1)
    /\ exec[1].qn = 2
    /\ mu = "Exec2"
    /\ exec[2].at > exec[1].at

\* C19: with two Exec(series=true) calls running at the same time, the status
\* writes of one call are not interleaved with the other's: each call leaves, at
\* its unlock, the time it recorded itself with an error that is non-nil exactly
\* when the call returned one, the calls' times are in the order of their
\* unlocks, and wherever the lock is free the status is the one the call that
\* unlocked last left (the zero status before the first).
C19_StatusUpdatesAreSerialized ==
    /\ \A k \in 1..Len(finals) :
          /\ finals[k].time = finals[k].at
          /\ (finals[k].err # NilErr) <=> finals[k].failed
          /\ \A j \in 1..(k - 1) : finals[j].time < finals[k].time
    /\ mu = "free"
          => /\ lastExecTime = LatestStatus.time
             /\ lastExecError = LatestStatus.err
    /\ \A self \in ExecProcs :
          exec[self].pc \in {"SetTime", "SetErr", "Loop", "Unlock"} => mu = ExecId(self)

\* Both calls have returned and the lock is free: the call whose query was
\* issued first took the lock last, and the status is the failure it left, not
\* the success of the call whose query was issued second.
C19_Witness ==
    /\ mu = "free"
    /\ Len(finals) = 2
    /\ finals[1].qn = 2
    /\ finals[2].qn = 1
    /\ ~finals[1].failed
    /\ finals[2].failed
    /\ lastExecError = errCanceled
    /\ lastExecTime = 2
    /\ exec[1].pc = "Return"
    /\ exec[2].pc = "Return"

\* C20: Exec returns the duplicate error only when two metrics of the query
\* result have the same final label set: when the final label sets of the
\* metrics it went through are pairwise different as sets of (name, value)
\* pairs, also with ',' or '=' in a value, it returns a nil error and every
\* series, and lastExecError is not errDuplicate.
C20_DuplicateOnlyForEqualSets ==
    \A self \in ExecProcs :
        (/\ ExecDone(self)
         /\ \A p, q \in 1..Len(FinalSets(self)) :
               p < q => FinalSets(self)[p] # FinalSets(self)[q])
            => /\ ~ErrIs(exec[self].res.err, errDuplicate)
               /\ exec[self].res.err = NilErr
               /\ Len(exec[self].res.tss) = Len(exec[self].qMetrics)
               /\ lastExecError # errDuplicate
====
